---- MODULE Spec2Model ----
(***************************************************************************)
(* State-machine model of chart_version_updater: the version comparator,   *)
(* the YAML document helpers, argument parsing, chart discovery and the    *)
(* update pipeline (Read -> Resolve -> Compare -> Mutate -> Persist).       *)
(*                                                                         *)
(* Go strings are modelled as sequences of one-character strings, so that  *)
(* strings.Split, strconv.Atoi, strings.HasPrefix ... are computed on the  *)
(* characters, as the code computes them.  The empty string is <<>>.       *)
(***************************************************************************)
EXTENDS Integers, Sequences, FiniteSets, TLC

VARIABLES
  \* ---- filesystem and process state of one run (run / runApp / runUpdate)
  cfg,        \* Config{DryRun, CheckOnly}
  disk,       \* file name -> content of the manifest file on disk
  disk0,      \* history: the disk as it was when the run started
  tmp,        \* the preview's temporary file: [exists, written]
  charts,     \* the []ChartInfo returned by discovery
  idx,        \* 1-based position of the run loop in charts
  pc,         \* position of the run / of the updater closure
  docs,       \* the []*yaml.Node the updater holds in memory
  current,    \* updater local: current
  latest,     \* updater local: latest
  handed,     \* history: the documents handed to the persist collaborator
  result,     \* the UpdateResult the updater returned for charts[idx]
  results,    \* history: every UpdateResult produced, in order
  failedAt,   \* history: the step at which the current manifest failed
  log,        \* history: collaborator invocations, in order
  exit,       \* process exit code once the run has ended, -1 before
  \* ---- inputs and outputs of the pure functions
  va, vb, vc, \* version strings handed to versionLess
  vres,       \* the results of versionLess on them
  vpc,        \* position of the comparator harness
  args,       \* argument list handed to ParseConfig
  env,        \* value of UPDATE_VERSION_DIR handed to ParseConfig
  parsed,     \* what ParseConfig returned
  apc,        \* position of the argument-parsing harness
  fin,        \* input handed to a helper function (a version list, a node)
  fout,       \* what the helper returned
  fpc         \* position of the helper harness

vars == <<cfg, disk, disk0, tmp, charts, idx, pc, docs, current, latest, handed,
          result, results, failedAt, log, exit, va, vb, vc, vres, vpc, args, env, parsed, apc,
          fin, fout, fpc>>

runVars == <<cfg, disk, disk0, tmp, charts, idx, pc, docs, current, latest, handed,
             result, results, failedAt, log, exit>>
verVars == <<va, vb, vc, vres, vpc>>
argVars == <<args, env, parsed, apc>>
funVars == <<fin, fout, fpc>>

(***************************************************************************)
(* Bounds of the model.                                                    *)
(***************************************************************************)
MaxParts == 2      \* dot-separated components of a generated version string
MaxFiles == 2      \* directory entries that are manifest files
MaxDocs == 2       \* documents of a generated manifest (updater harness)
MaxArgs == 3       \* command-line arguments
MaxVersions == 3   \* versions of a list handed to findLatestStable

(***************************************************************************)
(* Strings.                                                                *)
(***************************************************************************)
Digits == {"0", "1", "2", "3", "4", "5", "6", "7", "8", "9"}

DigitVal(c) ==
  CASE c = "0" -> 0 [] c = "1" -> 1 [] c = "2" -> 2 [] c = "3" -> 3 [] c = "4" -> 4
    [] c = "5" -> 5 [] c = "6" -> 6 [] c = "7" -> 7 [] c = "8" -> 8 [] c = "9" -> 9

\* A Go int is [neg, mag]: its sign and the decimal digits of its magnitude
\* without leading zeros (zero is [neg |-> FALSE, mag |-> <<>>]), so that the
\* 64-bit range of strconv.Atoi is kept.
RECURSIVE StripZeros(_)
StripZeros(s) == IF s # <<>> /\ Head(s) = "0" THEN StripZeros(Tail(s)) ELSE s

\* x < y on magnitudes: the shorter is smaller, equal lengths compare digit by digit
DigitsLess(x, y) ==
  \/ Len(x) < Len(y)
  \/ /\ Len(x) = Len(y)
     /\ \E i \in 1..Len(x) :
          /\ DigitVal(x[i]) < DigitVal(y[i])
          /\ \A j \in 1..(i - 1) : x[j] = y[j]

\* math.MaxInt64 = 9223372036854775807 and the magnitude of math.MinInt64
MaxInt64Digits ==
  <<"9", "2", "2", "3", "3", "7", "2", "0", "3", "6", "8", "5", "4", "7", "7", "5", "8", "0", "7">>
MinInt64Digits ==
  <<"9", "2", "2", "3", "3", "7", "2", "0", "3", "6", "8", "5", "4", "7", "7", "5", "8", "0", "8">>

IntZero == [neg |-> FALSE, mag |-> <<>>]

IntLess(x, y) ==
  IF x.neg # y.neg THEN x.neg
  ELSE IF x.neg THEN DigitsLess(y.mag, x.mag)
  ELSE DigitsLess(x.mag, y.mag)

\* strconv.Atoi with the error dropped: an optional sign, then decimal digits.
\* A syntax error (empty, a letter, a lone sign) yields 0; a range error yields
\* the nearest bound, math.MaxInt64 or math.MinInt64.
toInt(s) ==
  LET signed == s # <<>> /\ Head(s) \in {"+", "-"}
      neg == signed /\ Head(s) = "-"
      body == IF signed THEN Tail(s) ELSE s
      mag == StripZeros(body)
  IN IF body = <<>> \/ \E i \in 1..Len(body) : body[i] \notin Digits THEN IntZero
     ELSE IF mag = <<>> THEN IntZero
     ELSE IF ~neg /\ DigitsLess(MaxInt64Digits, mag) THEN [neg |-> FALSE, mag |-> MaxInt64Digits]
     ELSE IF neg /\ DigitsLess(MinInt64Digits, mag) THEN [neg |-> TRUE, mag |-> MinInt64Digits]
     ELSE [neg |-> neg, mag |-> mag]

\* strings.Split(s, "."): always at least one component.
RECURSIVE SplitAcc(_, _, _)
SplitAcc(s, i, cur) ==
  IF i > Len(s) THEN <<cur>>
  ELSE IF s[i] = "." THEN <<cur>> \o SplitAcc(s, i + 1, <<>>)
  ELSE SplitAcc(s, i + 1, Append(cur, s[i]))

Split(s) == SplitAcc(s, 1, <<>>)

\* strings.HasPrefix / strings.HasSuffix / strings.Contains (one character)
HasPrefix(s, p) == Len(s) >= Len(p) /\ SubSeq(s, 1, Len(p)) = p
HasSuffix(s, p) == Len(s) >= Len(p) /\ SubSeq(s, Len(s) - Len(p) + 1, Len(s)) = p
ContainsChar(s, c) == \E i \in 1..Len(s) : s[i] = c

Max(a, b) == IF a > b THEN a ELSE b

(***************************************************************************)
(* version.go: versionLess.                                                *)
(***************************************************************************)
\* it.Chain(slices.Values(as), it.Repeat("0")): the i-th element of the padded sequence
Padded(seq, i) == IF i <= Len(seq) THEN seq[i] ELSE <<"0">>

versionLessOrEqual(a, b) ==
  LET as == Split(a)
      bs == Split(b)
      limit == Max(Len(as), Len(bs))
      diff == {i \in 1..limit : toInt(Padded(as, i)) # toInt(Padded(bs, i))}
  IN diff = {} \/
       LET i == CHOOSE j \in diff : \A k \in diff : j <= k
       IN IntLess(toInt(Padded(as, i)), toInt(Padded(bs, i)))

versionLess(a, b) ==
  LET as == Split(a)
      bs == Split(b)
      limit == Max(Len(as), Len(bs))
      diff == {i \in 1..limit : toInt(Padded(as, i)) # toInt(Padded(bs, i))}
      found == diff # {}
  IN found /\
       LET i == CHOOSE j \in diff : \A k \in diff : j <= k
       IN IntLess(toInt(Padded(as, i)), toInt(Padded(bs, i)))

\* artifacthub.go: isStable
isStable(v) == ~ContainsChar(v, "-")

(***************************************************************************)
(* yaml.go: the document tree (yaml.v3 Node) and the helpers over it.      *)
(* A node is [Kind, Value, Content, HeadComment]; a nil *yaml.Node is Nil. *)
(***************************************************************************)
DocumentNode == "Document"
MappingNode == "Mapping"
ScalarNode == "Scalar"
SequenceNode == "Sequence"

mappingNodeStep == 2

Nil == [Kind |-> "nil", Value |-> <<>>, Content |-> <<>>, HeadComment |-> <<>>]

Scalar(v) == [Kind |-> ScalarNode, Value |-> v, Content |-> <<>>, HeadComment |-> <<>>]
Mapping(content) == [Kind |-> MappingNode, Value |-> <<>>, Content |-> content, HeadComment |-> <<>>]
Document(content) == [Kind |-> DocumentNode, Value |-> <<>>, Content |-> content, HeadComment |-> <<>>]
Sequence(content) == [Kind |-> SequenceNode, Value |-> <<>>, Content |-> content, HeadComment |-> <<>>]
Commented(n, c) == [n EXCEPT !.HeadComment = c]

KindApplication == <<"A", "p", "p", "l", "i", "c", "a", "t", "i", "o", "n">>
artifactHubPrefix == <<"#", " ", "a", "r", "t", "i", "f", "a", "c", "t", "h", "u", "b", ":">>
KeyKind == <<"k", "i", "n", "d">>
KeySpec == <<"s", "p", "e", "c">>
KeySource == <<"s", "o", "u", "r", "c", "e">>
KeyTargetRevision == <<"t", "a", "r", "g", "e", "t", "R", "e", "v", "i", "s", "i", "o", "n">>
TargetRevisionPath == <<KeySpec, KeySource, KeyTargetRevision>>

docRoot(n) ==
  IF n.Kind = DocumentNode /\ Len(n.Content) > 0 THEN n.Content[1] ELSE n

\* findInContent: the index in content of the value of the first pair whose key
\* is `key`, 0 when there is none (the code returns the node, or nil).
RECURSIVE findIndex(_, _, _)
findIndex(content, key, at) ==
  IF Len(content) - at + 1 < mappingNodeStep THEN 0
  ELSE IF content[at].Value = key THEN at + 1
  ELSE findIndex(content, key, at + mappingNodeStep)

\* the key node returned instead of the value node that follows it
findInContentKey(content, key) ==
  LET i == findIndex(content, key, 1) IN IF i = 0 THEN Nil ELSE content[i - 1]

findInContent(content, key) ==
  LET i == findIndex(content, key, 1) IN IF i = 0 THEN Nil ELSE content[i]

mapGet(n, key) ==
  IF n = Nil \/ n.Kind # MappingNode THEN Nil ELSE findInContent(n.Content, key)

RECURSIVE lookup(_, _)
lookup(n, path) ==
  IF n = Nil THEN <<>>
  ELSE IF path = <<>> THEN n.Value
  ELSE lookup(mapGet(n, Head(path)), Tail(path))

\* mapSet appends the key and the value to n.Content, whatever n.Kind is.
mapSet(n, key, val) == [n EXCEPT !.Content = Append(Append(@, Scalar(key)), val)]

\* set mutates the tree in place through pointers; here it returns the new tree.
\* The child reached through mapGet is replaced where it stands; a missing child
\* is created as an (empty) MappingNode and appended by mapSet.
RECURSIVE set(_, _, _)
set(n, value, path) ==
  IF path = <<>> THEN [n EXCEPT !.Value = value]
  ELSE LET head == Head(path)
           tail == Tail(path)
           next == mapGet(n, head)
       IN IF next = Nil
          THEN mapSet(n, head, set(Mapping(<<>>), value, tail))
          ELSE [n EXCEPT !.Content[findIndex(n.Content, head, 1)] = set(next, value, tail)]

kind(n) == lookup(docRoot(n), <<KeyKind>>)

getTargetRevision(n) == lookup(docRoot(n), TargetRevisionPath)

\* setTargetRevision(n, v): set on docRoot(n); the root of a document is its
\* first child, any other node is its own root.
setTargetRevision(n, v) ==
  IF n.Kind = DocumentNode /\ Len(n.Content) > 0
  THEN [n EXCEPT !.Content[1] = set(n.Content[1], v, TargetRevisionPath)]
  ELSE set(n, v, TargetRevisionPath)

\* strings.TrimSpace on the characters the model uses (space, tab, newline)
Space == {" ", "\t", "\n"}

RECURSIVE TrimLeft(_)
TrimLeft(s) == IF s # <<>> /\ Head(s) \in Space THEN TrimLeft(Tail(s)) ELSE s

RECURSIVE TrimRight(_)
TrimRight(s) ==
  IF s # <<>> /\ s[Len(s)] \in Space THEN TrimRight(SubSeq(s, 1, Len(s) - 1)) ELSE s

TrimSpace(s) == TrimRight(TrimLeft(s))

\* the remainder of the comment returned as it stands, strings.TrimSpace left out
getArtifactHubRepoUntrimmed(n) ==
  LET root == docRoot(n)
  IN IF root.Kind = MappingNode /\ Len(root.Content) > 0
        /\ HasPrefix(root.Content[1].HeadComment, artifactHubPrefix)
     THEN SubSeq(root.Content[1].HeadComment, Len(artifactHubPrefix) + 1,
                 Len(root.Content[1].HeadComment))
     ELSE <<>>

getArtifactHubRepo(n) ==
  LET root == docRoot(n)
  IN IF root.Kind = MappingNode /\ Len(root.Content) > 0
        /\ HasPrefix(root.Content[1].HeadComment, artifactHubPrefix)
     THEN TrimSpace(SubSeq(root.Content[1].HeadComment, Len(artifactHubPrefix) + 1,
                           Len(root.Content[1].HeadComment)))
     ELSE <<>>

(***************************************************************************)
(* config.go: Config and ParseConfig.  An error is a tag, NoError is nil.  *)
(***************************************************************************)
NoError == "nil"

defaultArgoAppsDir == <<"a", "r", "g", "o", "a", "p", "p", "s">>

FlagDryRun == <<"-", "-", "d", "r", "y", "-", "r", "u", "n">>
FlagN == <<"-", "n">>
FlagCheck == <<"-", "-", "c", "h", "e", "c", "k">>
FlagC == <<"-", "C">>
FlagDir == <<"-", "-", "d", "i", "r">>
FlagD == <<"-", "d">>
FlagHelp == <<"-", "-", "h", "e", "l", "p">>
FlagH == <<"-", "h">>
TestFlagPrefix == <<"-", "t", "e", "s", "t", ".">>

defaultConfig == [Dir |-> defaultArgoAppsDir, DryRun |-> FALSE, CheckOnly |-> FALSE]

applyEnv(c, envDir) == IF envDir # <<>> THEN [c EXCEPT !.Dir = envDir] ELSE c

RECURSIVE parseArgs(_, _)
parseArgs(c, as) ==
  IF Len(as) = 0 THEN [cfg |-> c, err |-> NoError]
  ELSE LET head == Head(as)
           tail == Tail(as)
       IN CASE head \in {FlagDryRun, FlagN} -> parseArgs([c EXCEPT !.DryRun = TRUE], tail)
            [] head \in {FlagCheck, FlagC} -> parseArgs([c EXCEPT !.CheckOnly = TRUE], tail)
            [] head \in {FlagDir, FlagD} ->
                 IF Len(tail) = 0
                 THEN [cfg |-> c, err |-> "--dir requires a directory path"]
                 ELSE parseArgs([c EXCEPT !.Dir = Head(tail)], Tail(tail))
            [] head \in {FlagHelp, FlagH} -> [cfg |-> c, err |-> "help requested"]
            [] OTHER ->
                 IF HasPrefix(head, TestFlagPrefix) THEN parseArgs(c, tail)
                 ELSE IF HasPrefix(head, <<"-">>) THEN [cfg |-> c, err |-> "unknown flag"]
                 ELSE parseArgs(c, tail)

validateConfigNoCheck(c) == [cfg |-> c, err |-> NoError]

validateConfig(c) ==
  IF c.DryRun /\ c.CheckOnly
  THEN [cfg |-> c, err |-> "--dry-run and --check cannot be used together"]
  ELSE [cfg |-> c, err |-> NoError]

ParseConfig(as, envDir) ==
  LET r == parseArgs(applyEnv(defaultConfig, envDir), as)
  IN IF r.err # NoError THEN r ELSE validateConfig(r.cfg)

(***************************************************************************)
(* artifacthub.go: the version resolver.  The registry's answer is the     *)
(* environment's: a transport failure, a non-200 status, an undecodable    *)
(* body, or a decoded list of version strings.                             *)
(***************************************************************************)
\* the comparison function handed to slices.MaxFunc
cmpVersions(a, b) ==
  IF versionLess(a, b) THEN 0 - 1 ELSE IF versionLess(b, a) THEN 1 ELSE 0

\* the last maximal element instead of the first
RECURSIVE MaxFuncLast(_, _, _)
MaxFuncLast(x, i, m) ==
  IF i > Len(x) THEN m
  ELSE MaxFuncLast(x, i + 1, IF cmpVersions(x[i], m) >= 0 THEN x[i] ELSE m)

\* slices.MaxFunc: the first maximal element (m is replaced only by a greater one)
RECURSIVE MaxFuncFrom(_, _, _)
MaxFuncFrom(x, i, m) ==
  IF i > Len(x) THEN m
  ELSE MaxFuncFrom(x, i + 1, IF cmpVersions(x[i], m) > 0 THEN x[i] ELSE m)

findLatestStable(versions) ==
  LET stable == SelectSeq(versions, isStable)
  IN IF Len(stable) = 0 THEN [version |-> <<>>, found |-> FALSE]
     ELSE [version |-> MaxFuncFrom(stable, 2, stable[1]), found |-> TRUE]

fetchVersions(resp) ==
  CASE resp.kind = "request" -> [versions |-> <<>>, err |-> "create request"]
    [] resp.kind = "transport" -> [versions |-> <<>>, err |-> "fetch versions from artifacthub"]
    [] resp.kind = "status" -> [versions |-> <<>>, err |-> "artifacthub HTTP status"]
    [] resp.kind = "decode" -> [versions |-> <<>>, err |-> "decode artifacthub response"]
    [] OTHER -> [versions |-> resp.versions, err |-> NoError]

\* the fetcher with the found flag of findLatestStable ignored
ArtifactHubFetcherUnchecked(resp) ==
  LET got == fetchVersions(resp)
      best == findLatestStable(got.versions)
  IN IF got.err # NoError THEN [latest |-> <<>>, err |-> got.err]
     ELSE [latest |-> best.version, err |-> NoError]

\* the VersionFetcher returned by MakeArtifactHubFetcher
ArtifactHubFetcher(resp) ==
  LET got == fetchVersions(resp)
      best == findLatestStable(got.versions)
  IN IF got.err # NoError THEN [latest |-> <<>>, err |-> got.err]
     ELSE IF ~best.found THEN [latest |-> <<>>, err |-> "no stable versions found"]
     ELSE [latest |-> best.version, err |-> NoError]

(***************************************************************************)
(* update.go: UpdateResult and the helpers of the updater.                 *)
(***************************************************************************)
StatusUpToDate == "up-to-date"
StatusUpdated == "updated"
StatusError == "error"

UpdateResult(file, repo, cur, lat, status, err) ==
  [File |-> file, Repo |-> repo, Current |-> cur, Latest |-> lat, Status |-> status, Error |-> err]

newErrorResult(file, repo, err) == UpdateResult(file, repo, <<>>, <<>>, StatusError, err)

\* the current version left out of the result
newErrorResultDropCurrent(file, repo, cur, err) ==
  UpdateResult(file, repo, <<>>, <<>>, StatusError, err)

newErrorResultWithCurrent(file, repo, cur, err) ==
  UpdateResult(file, repo, cur, <<>>, StatusError, err)

newErrorResultWithVersions(file, repo, cur, lat, err) ==
  UpdateResult(file, repo, cur, lat, StatusError, err)

\* it.Find over the documents: the index of the first Application document, 0 if none
firstApplication(ds) ==
  LET apps == {i \in 1..Len(ds) : kind(ds[i]) = KindApplication}
  IN IF apps = {} THEN 0 ELSE CHOOSE i \in apps : \A j \in apps : i <= j

\* the version of the last Application document taken for the current one
findCurrentVersionLast(ds) ==
  LET apps == {i \in 1..Len(ds) : kind(ds[i]) = KindApplication}
  IN IF apps # {}
     THEN [version |-> getTargetRevision(ds[CHOOSE i \in apps : \A j \in apps : i >= j]),
           found |-> TRUE]
     ELSE [version |-> <<>>, found |-> FALSE]

findCurrentVersion(ds) ==
  LET i == firstApplication(ds)
  IN IF i # 0 THEN [version |-> getTargetRevision(ds[i]), found |-> TRUE]
     ELSE [version |-> <<>>, found |-> FALSE]

\* the filter inverted: the documents that are not Applications are set
updateDocumentsInverted(ds, version) ==
  [i \in 1..Len(ds) |->
     IF kind(ds[i]) # KindApplication THEN setTargetRevision(ds[i], version) ELSE ds[i]]

updateDocuments(ds, version) ==
  [i \in 1..Len(ds) |->
     IF kind(ds[i]) = KindApplication THEN setTargetRevision(ds[i], version) ELSE ds[i]]

(***************************************************************************)
(* yaml.go / diff.go: files.  The content of a file is what a reader of    *)
(* its bytes gets: whether they decode, the comment written above the      *)
(* first "---", and the documents.                                         *)
(***************************************************************************)
Content(ok, comment, ds) == [ok |-> ok, comment |-> comment, docs |-> ds]

Malformed == Content(FALSE, <<>>, <<>>)
EmptyFile == Content(TRUE, <<>>, <<>>)

\* What yaml.Encoder.Encode writes for a node, as a reader of the bytes gets it
\* back: a scalar is its Value (children are not written), a mapping is its
\* complete key/value pairs (its Value and an unpaired last child are not
\* written), a sequence is its items.  Tags and styles are not modelled: lookup
\* and set read and write Kind, Value, Content and HeadComment only.
RECURSIVE encodeNode(_)
encodeNode(n) ==
  CASE n.Kind = ScalarNode -> [n EXCEPT !.Content = <<>>]
    [] n.Kind = MappingNode ->
         [n EXCEPT !.Value = <<>>,
                   !.Content = [i \in 1..(mappingNodeStep * (Len(n.Content) \div mappingNodeStep))
                                  |-> encodeNode(n.Content[i])]]
    [] OTHER ->
         [n EXCEPT !.Value = <<>>,
                   !.Content = [i \in 1..Len(n.Content) |-> encodeNode(n.Content[i])]]

\* Encode fails on a document node without a root: there is nothing to emit
\* between the document's start and its end
encodable(n) == ~(n.Kind = DocumentNode /\ Len(n.Content) = 0)

\* the first document encoded and the rest of the stream forgotten
encodeStreamFirst(ds) ==
  IF Len(ds) = 0 THEN [docs |-> <<>>, err |-> NoError]
  ELSE IF ~encodable(ds[1]) THEN [docs |-> <<>>, err |-> "encode yaml"]
  ELSE [docs |-> <<encodeNode(ds[1])>>, err |-> NoError]

\* encodeStream: the documents in order (each after the first behind a "---");
\* an error at the first document that cannot be encoded
encodeStream(ds) ==
  LET bad == {i \in 1..Len(ds) : ~encodable(ds[i])}
      stop == IF bad = {} THEN Len(ds) + 1 ELSE CHOOSE i \in bad : \A j \in bad : i <= j
  IN [docs |-> [i \in 1..(stop - 1) |-> encodeNode(ds[i])],
      err |-> IF bad = {} THEN NoError ELSE "encode yaml"]

\* decodeStream: the documents of the bytes.  yaml.v3 attaches a comment that
\* stands above the first "---" to the first key of the first document's root
\* mapping, as it does with a comment directly above that key.
decodeStream(content) ==
  IF ~content.ok THEN [docs |-> <<>>, err |-> "decode yaml"]
  ELSE IF content.comment # <<>> /\ Len(content.docs) > 0
          /\ docRoot(content.docs[1]).Kind = MappingNode
          /\ Len(docRoot(content.docs[1]).Content) > 0
          /\ content.docs[1].Kind = DocumentNode
  THEN [docs |-> [content.docs EXCEPT ![1].Content[1].Content[1].HeadComment = content.comment],
        err |-> NoError]
  ELSE [docs |-> content.docs, err |-> NoError]

\* readYAMLDocuments: os.Open may fail; decodeStream fails on malformed bytes;
\* closeFile(f, &err) runs whatever decodeStream returned.  open: the file
\* handles the call leaves open.
readYAMLDocuments(content, openFails) ==
  IF openFails THEN [docs |-> <<>>, err |-> "open yaml file", open |-> 0]
  ELSE [docs |-> decodeStream(content).docs, err |-> decodeStream(content).err, open |-> 0]

\* extractComment: the document without the annotation on its first key, and the annotation
extractComment(n) ==
  LET root == docRoot(n)
  IN IF root.Kind # MappingNode \/ Len(root.Content) = 0
        \/ ~HasPrefix(root.Content[1].HeadComment, artifactHubPrefix)
     THEN [node |-> n, comment |-> <<>>]
     ELSE LET newRoot == [root EXCEPT !.Content[1].HeadComment = <<>>]
          IN [node |-> IF n.Kind = DocumentNode THEN [n EXCEPT !.Content[1] = newRoot]
                       ELSE newRoot,
              comment |-> root.Content[1].HeadComment]

\* what writeYAMLDocuments sends to the file: the hoisted comment (followed by
\* "---") and the nodes it hands to encodeStream
hoisted(ds) ==
  IF Len(ds) > 0 /\ extractComment(ds[1]).comment # <<>>
  THEN [comment |-> extractComment(ds[1]).comment,
        nodes |-> <<extractComment(ds[1]).node>> \o Tail(ds)]
  ELSE [comment |-> <<>>, nodes |-> ds]

WriteOutcomes == {"createErr", "commentErr", "encodeErr", "closeErr", "ok"}

\* writeYAMLDocuments under outcome o of the file system; an encode error
\* stops after `done` documents.  os.Create truncates the file before anything
\* is written.  The result is unnamed and the deferred closeFile calls run
\* after it was set, so a close error does not reach the caller.  Once the
\* file is created the deferred closeFile(f, ...) closes it on every return.
writeYAMLDocuments(before, ds, o, done) ==
  LET h == hoisted(ds)
      e == encodeStream(h.nodes)
  IN CASE o = "createErr" ->
            [err |-> "create yaml file", content |-> before, failed |-> "create", open |-> 0]
       [] o = "commentErr" /\ h.comment # <<>> ->
            [err |-> "write yaml comment", content |-> EmptyFile, failed |-> "comment", open |-> 0]
       [] o = "encodeErr" /\ done < Len(e.docs) ->
            [err |-> "encode yaml", content |-> Content(TRUE, h.comment, SubSeq(e.docs, 1, done)),
             failed |-> "encode", open |-> 0]
       [] e.err # NoError ->
            [err |-> e.err, content |-> Content(TRUE, h.comment, e.docs), failed |-> "encode",
             open |-> 0]
       [] o = "closeErr" ->
            [err |-> NoError, content |-> Content(TRUE, h.comment, e.docs), failed |-> "close",
             open |-> 0]
       [] OTHER -> [err |-> NoError, content |-> Content(TRUE, h.comment, e.docs), failed |-> "none",
                    open |-> 0]

DiffOutcomes ==
  {"createTempErr", "encodeErr", "encCloseErr", "tmpCloseErr", "same", "differ", "gitFailed",
   "gitNotRun"}

\* showDiffInternal under outcome o: the documents go to a temporary file, git
\* diff compares it with the manifest, the deferred os.Remove deletes it.  Any
\* *exec.ExitError of git (files differ, or git failed) is taken as success.
\* tmp.Close() is reached only after encodeStream and enc.Close() succeeded.
showDiffInternal(ds, o, removeFails) ==
  LET e == encodeStream(ds)
      err == CASE o = "createTempErr" -> "create temporary file"
               [] o = "encodeErr" /\ Len(ds) > 0 -> "encode yaml"
               [] e.err # NoError -> e.err
               [] o = "encCloseErr" -> "close encoder"
               [] o = "tmpCloseErr" -> "close temporary file"
               [] o = "gitNotRun" -> "run git diff"
               [] OTHER -> NoError
      created == o # "createTempErr"
      written == IF ~created \/ (o = "encodeErr" /\ Len(ds) > 0) THEN EmptyFile
                 ELSE Content(TRUE, <<>>, e.docs)
  IN [err |-> IF created /\ removeFails /\ err = NoError THEN "remove temporary file" ELSE err,
      failed |-> CASE o = "createTempErr" -> "create"
                   [] (o = "encodeErr" /\ Len(ds) > 0) \/ e.err # NoError -> "encode"
                   [] o \in {"encCloseErr", "tmpCloseErr"} -> "close"
                   [] o = "gitNotRun" -> "git not run"
                   [] o = "gitFailed" -> "git failed"
                   [] removeFails -> "remove"
                   [] OTHER -> "none",
      created |-> created,
      written |-> written,
      left |-> created /\ removeFails,
      removeFailed |-> created /\ removeFails,
      open |-> IF created /\ ((o = "encodeErr" /\ Len(ds) > 0) \/ e.err # NoError
                               \/ o = "encCloseErr")
               THEN 1 ELSE 0]

(***************************************************************************)
(* config.go: chart discovery.                                             *)
(***************************************************************************)
ChartInfo(file, repo) == [File |-> file, Repo |-> repo]

SuffixYaml == <<".", "y", "a", "m", "l">>
SuffixYml == <<".", "y", "m", "l">>

isYamlFile(entry) ==
  ~entry.isDir /\ (HasSuffix(entry.name, SuffixYaml) \/ HasSuffix(entry.name, SuffixYml))

\* A path is a sequence of segments.  filepath.Abs cleans the path lexically
\* (it does not follow symbolic links); the entry names os.ReadDir returns hold
\* no separator.
IsPathPrefix(p, q) == Len(p) <= Len(q) /\ SubSeq(q, 1, Len(p)) = p

isValidPath(absDir, absPath) == (IsPathPrefix(absDir, absPath) /\ absDir # absPath) \/ absPath = absDir

\* the annotation of the first annotated document, whatever its kind
extractArtifactHubRepoAnyKind(content, openFails) ==
  LET r == readYAMLDocuments(content, openFails)
      hits == {i \in 1..Len(r.docs) : getArtifactHubRepo(r.docs[i]) # <<>>}
  IN IF r.err # NoError THEN [repo |-> <<>>, err |-> r.err]
     ELSE IF hits = {} THEN [repo |-> <<>>, err |-> NoError]
     ELSE [repo |-> getArtifactHubRepo(r.docs[CHOOSE i \in hits : \A j \in hits : i <= j]),
           err |-> NoError]

\* extractArtifactHubRepo: the first non-empty annotation among the Application documents
extractArtifactHubRepo(content, openFails) ==
  LET r == readYAMLDocuments(content, openFails)
      hits == {i \in 1..Len(r.docs) :
                 kind(r.docs[i]) = KindApplication /\ getArtifactHubRepo(r.docs[i]) # <<>>}
  IN IF r.err # NoError THEN [repo |-> <<>>, err |-> r.err]
     ELSE IF hits = {} THEN [repo |-> <<>>, err |-> NoError]
     ELSE [repo |-> getArtifactHubRepo(r.docs[CHOOSE i \in hits : \A j \in hits : i <= j]),
           err |-> NoError]

\* relativePath(baseDir, filepath.Join(baseDir, name)) is name
toChartInfo(content, openFails, name) ==
  LET r == extractArtifactHubRepo(content, openFails)
  IN IF r.err # NoError THEN ChartInfo(<<>>, <<>>) ELSE ChartInfo(name, r.repo)

\* steps 1-3 of the pipeline: the entries whose path is handed to readYaml
readCandidates(entries, dir) ==
  SelectSeq(entries, LAMBDA e : isYamlFile(e) /\ isValidPath(dir, Append(dir, e.name)))

\* the pipeline of MakeChartDiscoverer over the listing, in listing order;
\* locked holds the names of the files os.Open fails on
RECURSIVE discoverEntries(_, _, _, _)
discoverEntries(entries, d, locked, dir) ==
  IF entries = <<>> THEN <<>>
  ELSE LET e == Head(entries)
           rest == discoverEntries(Tail(entries), d, locked, dir)
       IN IF isYamlFile(e) /\ isValidPath(dir, Append(dir, e.name))
             /\ toChartInfo(d[e.name], e.name \in locked, e.name).Repo # <<>>
          THEN <<toChartInfo(d[e.name], e.name \in locked, e.name)>> \o rest
          ELSE rest

DiscoverOutcomes == {"ok", "statErr", "notDir", "absErr", "readDirErr"}

\* the discoverer giving up on the first file that cannot be read or parsed
discoverAborting(o, entries, d, locked, dir) ==
  LET cands == readCandidates(entries, dir)
      bad == \E i \in 1..Len(cands) :
               extractArtifactHubRepo(d[cands[i].name], cands[i].name \in locked).err # NoError
  IN CASE o = "statErr" -> [charts |-> <<>>, err |-> "cannot access directory", read |-> <<>>]
       [] o = "notDir" -> [charts |-> <<>>, err |-> "path is not a directory", read |-> <<>>]
       [] o = "absErr" -> [charts |-> <<>>, err |-> "cannot resolve directory path", read |-> <<>>]
       [] o = "readDirErr" -> [charts |-> <<>>, err |-> "cannot read directory", read |-> <<>>]
       [] OTHER -> [charts |-> IF bad THEN <<>> ELSE discoverEntries(entries, d, locked, dir),
                    err |-> IF bad THEN "read manifest" ELSE NoError,
                    read |-> [i \in 1..Len(cands) |-> cands[i].name]]

\* the discoverer without the info.IsDir() test
discoverNoDirCheck(o, entries, d, locked, dir) ==
  LET cands == readCandidates(entries, dir)
  IN CASE o = "statErr" -> [charts |-> <<>>, err |-> "cannot access directory", read |-> <<>>]
       [] o = "absErr" -> [charts |-> <<>>, err |-> "cannot resolve directory path", read |-> <<>>]
       [] o = "readDirErr" -> [charts |-> <<>>, err |-> "cannot read directory", read |-> <<>>]
       [] OTHER -> [charts |-> discoverEntries(entries, d, locked, dir),
                    err |-> NoError,
                    read |-> [i \in 1..Len(cands) |-> cands[i].name]]

\* the closure MakeChartDiscoverer returns, under outcome o of stat / IsDir /
\* filepath.Abs / readDir: the charts, the error, and the files handed to readYaml
discover(o, entries, d, locked, dir) ==
  LET cands == readCandidates(entries, dir)
  IN CASE o = "statErr" -> [charts |-> <<>>, err |-> "cannot access directory", read |-> <<>>]
       [] o = "notDir" -> [charts |-> <<>>, err |-> "path is not a directory", read |-> <<>>]
       [] o = "absErr" -> [charts |-> <<>>, err |-> "cannot resolve directory path", read |-> <<>>]
       [] o = "readDirErr" -> [charts |-> <<>>, err |-> "cannot read directory", read |-> <<>>]
       [] OTHER -> [charts |-> discoverEntries(entries, d, locked, dir),
                    err |-> NoError,
                    read |-> [i \in 1..Len(cands) |-> cands[i].name]]

(***************************************************************************)
(* Sample data: version strings, documents, manifests, registry answers.   *)
(***************************************************************************)
V100 == <<"1", ".", "0", ".", "0">>
V150 == <<"1", ".", "5", ".", "0">>
V200 == <<"2", ".", "0", ".", "0">>
V300 == <<"3", ".", "0", ".", "0">>
V100alpha == <<"1", ".", "0", ".", "0", "-", "a", "l", "p", "h", "a">>
V200beta == <<"2", ".", "0", ".", "0", "-", "b", "e", "t", "a">>

RepoOrgChart == <<"o", "r", "g", "/", "c", "h", "a", "r", "t">>
Annotation == artifactHubPrefix \o <<" ">> \o RepoOrgChart
KindSecret == <<"S", "e", "c", "r", "e", "t">>

\* kind: <k>, spec: {source: {targetRevision: <v>}}, with comment c above the first key
ManifestDoc(k, v, c) ==
  Document(<<Mapping(<<Commented(Scalar(KeyKind), c), Scalar(k),
                       Scalar(KeySpec),
                       Mapping(<<Scalar(KeySource),
                                 Mapping(<<Scalar(KeyTargetRevision), Scalar(v)>>)>>)>>)>>)

AppDoc(v, c) == ManifestDoc(KindApplication, v, c)
SecretDoc == ManifestDoc(KindSecret, V100, <<>>)
\* kind: Application and nothing else
AppNoTarget(c) ==
  Document(<<Mapping(<<Commented(Scalar(KeyKind), c), Scalar(KindApplication)>>)>>)
\* kind: Application, spec: x   (spec is a scalar)
AppScalarSpec(c) ==
  Document(<<Mapping(<<Commented(Scalar(KeyKind), c), Scalar(KindApplication),
                       Scalar(KeySpec), Scalar(<<"x">>)>>)>>)
\* a document without a root (an empty document)
EmptyDoc == Document(<<>>)

\* the manifests of the run-level model
ManifestSamples ==
  { Content(TRUE, <<>>, <<AppDoc(V100, Annotation)>>),
    Content(TRUE, <<>>, <<AppDoc(V200, Annotation)>>),
    Content(TRUE, <<>>, <<AppDoc(V100, Annotation), SecretDoc>>),
    Content(TRUE, <<>>, <<AppNoTarget(Annotation)>>),
    Malformed }

\* the documents of the updater-level model, and its manifests of up to MaxDocs of them
DocSamples ==
  { AppDoc(V100, Annotation), AppDoc(V200, <<>>), AppDoc(V300, <<>>), SecretDoc,
    AppNoTarget(<<>>), AppScalarSpec(<<>>), EmptyDoc }

GeneratedManifests ==
  {Malformed} \cup
  UNION {{Content(TRUE, <<>>, ds) : ds \in [1..n -> DocSamples]} : n \in 0..MaxDocs}

\* what the registry may answer
Responses ==
  { [kind |-> "request", versions |-> <<>>],
    [kind |-> "transport", versions |-> <<>>],
    [kind |-> "status", versions |-> <<>>],
    [kind |-> "decode", versions |-> <<>>],
    [kind |-> "ok", versions |-> <<>>],
    [kind |-> "ok", versions |-> <<V100alpha, V200beta>>],
    [kind |-> "ok", versions |-> <<V100, V200beta>>],
    [kind |-> "ok", versions |-> <<V100, V200, V150>>] }

NameA == <<"a", ".", "y", "a", "m", "l">>
NameB == <<"b", ".", "y", "m", "l">>
NameC == <<"c", ".", "y", "a", "m", "l">>
NameD == <<"d", ".", "y", "m", "l">>
NameTxt == <<"n", ".", "t", "x", "t">>
NameSub == <<"s", "u", "b", ".", "y", "a", "m", "l">>
ManifestNames == <<NameA, NameB, NameC, NameD>>

\* the listing of the scanned directory, sorted by name as os.ReadDir returns it:
\* MaxFiles manifests, a text file and a sub-directory named like a manifest
DirEntries ==
  [i \in 1..MaxFiles |-> [name |-> ManifestNames[i], isDir |-> FALSE]]
    \o <<[name |-> NameTxt, isDir |-> FALSE], [name |-> NameSub, isDir |-> TRUE]>>

FileNames == {ManifestNames[i] : i \in 1..MaxFiles}

Cwd == <<"w">>
AbsDir(dir) == <<Cwd, dir>>

(***************************************************************************)
(* main.go: run, runApp, runUpdate, and the updater closure of update.go   *)
(* as steps.                                                               *)
(***************************************************************************)
NoResult == UpdateResult(<<>>, <<>>, <<>>, <<>>, "none", NoError)
NoTmp == [created |-> FALSE, left |-> FALSE, written |-> EmptyFile, removeFailed |-> FALSE]
NoResp == [kind |-> "none", versions |-> <<>>]
\* a collaborator was invoked for chart i and returned err (resp: the registry's
\* answer; failed: the operation that failed inside a persist collaborator;
\* open: the file handles the collaborator left open)
Ev(op, i, err) ==
  [op |-> op, i |-> i, resp |-> NoResp, err |-> err, failed |-> "none", open |-> 0]

\* the updater's locals before it runs on a manifest
FreshLocals ==
  /\ docs' = <<>>
  /\ current' = <<>>
  /\ latest' = <<>>
  /\ handed' = <<>>
  /\ result' = NoResult
  /\ failedAt' = "none"

\* the updater returns r
Return(r, step) ==
  /\ result' = r
  /\ results' = Append(results, r)
  /\ failedAt' = step
  /\ pc' = "returned"

\* logResult: the error the run loop's action returns for r
logResult(r) ==
  IF r.Error # NoError THEN r.Error
  ELSE IF r.Status = StatusError THEN "unknown error"
  ELSE NoError

\* MakeChartDiscoverer: stat, IsDir, ReadDir may fail; otherwise the charts
Discover ==
  /\ pc = "start"
  /\ \E o \in DiscoverOutcomes :
       LET got == discover(o, DirEntries, disk, {}, AbsDir(cfg.Dir))
       IN IF got.err = NoError
          THEN /\ charts' = got.charts
               /\ log' = Append(log, Ev("discover", 0, NoError))
               /\ pc' = "discovered"
               /\ exit' = exit
          ELSE /\ charts' = <<>>
               /\ log' = Append(log, Ev("discover", 0, got.err))
               /\ pc' = "done"
               /\ exit' = 1
  /\ UNCHANGED <<cfg, disk, disk0, tmp, idx, docs, current, latest, handed, result,
                 results, failedAt, verVars, argVars, funVars>>

\* an empty discovery taken for a successful run
NoChartsSucceeds ==
  /\ pc = "discovered"
  /\ Len(charts) = 0
  /\ pc' = "done"
  /\ exit' = 0
  /\ UNCHANGED <<cfg, disk, disk0, tmp, charts, idx, docs, current, latest, handed, result,
                 results, failedAt, log, verVars, argVars, funVars>>

\* runApp: no chart found
NoCharts ==
  /\ pc = "discovered"
  /\ Len(charts) = 0
  /\ pc' = "done"
  /\ exit' = 1
  /\ UNCHANGED <<cfg, disk, disk0, tmp, charts, idx, docs, current, latest, handed, result,
                 results, failedAt, log, verVars, argVars, funVars>>

\* runApp with cfg.CheckOnly: runCheck lists the charts
RunCheck ==
  /\ pc = "discovered"
  /\ Len(charts) > 0
  /\ cfg.CheckOnly
  /\ log' = Append(log, Ev("list", 0, NoError))
  /\ pc' = "done"
  /\ exit' = 0
  /\ UNCHANGED <<cfg, disk, disk0, tmp, charts, idx, docs, current, latest, handed, result,
                 results, failedAt, verVars, argVars, funVars>>

\* runUpdate entered whatever cfg.CheckOnly is
RunUpdateAlways ==
  /\ pc = "discovered"
  /\ Len(charts) > 0
  /\ idx' = 1
  /\ pc' = "read"
  /\ UNCHANGED <<cfg, disk, disk0, tmp, charts, docs, current, latest, handed, result,
                 results, failedAt, log, exit, verVars, argVars, funVars>>

\* runApp -> runUpdate: the loop starts on the first chart
RunUpdate ==
  /\ pc = "discovered"
  /\ Len(charts) > 0
  /\ ~cfg.CheckOnly
  /\ idx' = 1
  /\ pc' = "read"
  /\ UNCHANGED <<cfg, disk, disk0, tmp, charts, docs, current, latest, handed, result,
                 results, failedAt, log, exit, verVars, argVars, funVars>>

\* updater: read(path), findCurrentVersion
ReadStep ==
  /\ pc = "read"
  /\ \E openFails \in BOOLEAN :
       LET c == charts[idx]
           r == readYAMLDocuments(disk[c.File], openFails)
           cv == findCurrentVersion(r.docs)
       IN /\ log' = Append(log, [Ev("read", idx, r.err) EXCEPT !.open = r.open])
          /\ docs' = r.docs
          /\ IF r.err # NoError
             THEN Return(newErrorResult(c.File, c.Repo, r.err), "read") /\ current' = current
             ELSE IF ~cv.found
             THEN Return(newErrorResult(c.File, c.Repo, "failed to read current version"), "read")
                  /\ current' = current
             ELSE /\ current' = cv.version
                  /\ pc' = "resolve"
                  /\ UNCHANGED <<result, results, failedAt>>
  /\ UNCHANGED <<cfg, disk, disk0, tmp, charts, idx, latest, handed, exit, verVars, argVars, funVars>>

\* updater: fetch(ctx, repo)
ResolveStep ==
  /\ pc = "resolve"
  /\ \E resp \in Responses :
       LET c == charts[idx]
           f == ArtifactHubFetcher(resp)
       IN /\ log' = Append(log, [op |-> "fetch", i |-> idx, resp |-> resp, err |-> f.err, failed |-> "none",
                                 open |-> 0])
          /\ IF f.err # NoError
             THEN Return(newErrorResultWithCurrent(c.File, c.Repo, current, f.err), "resolve")
                  /\ latest' = latest
             ELSE /\ latest' = f.latest
                  /\ pc' = "compare"
                  /\ UNCHANGED <<result, results, failedAt>>
  /\ UNCHANGED <<cfg, disk, disk0, tmp, charts, idx, docs, current, handed, exit,
                 verVars, argVars, funVars>>

\* the comparison with its arguments swapped
CompareStepSwapped ==
  /\ pc = "compare"
  /\ LET c == charts[idx]
     IN IF ~versionLess(latest, current)
        THEN Return(UpdateResult(c.File, c.Repo, current, latest, StatusUpToDate, NoError), "none")
        ELSE pc' = "mutate" /\ UNCHANGED <<result, results, failedAt>>
  /\ UNCHANGED <<cfg, disk, disk0, tmp, charts, idx, docs, current, latest, handed, log, exit,
                 verVars, argVars, funVars>>

\* updater: if !versionLess(current, latest) return UpToDate
CompareStep ==
  /\ pc = "compare"
  /\ LET c == charts[idx]
     IN IF ~versionLess(current, latest)
        THEN Return(UpdateResult(c.File, c.Repo, current, latest, StatusUpToDate, NoError), "none")
        ELSE pc' = "mutate" /\ UNCHANGED <<result, results, failedAt>>
  /\ UNCHANGED <<cfg, disk, disk0, tmp, charts, idx, docs, current, latest, handed, log, exit,
                 verVars, argVars, funVars>>

\* updater: updateDocuments(docs, latest)
MutateStep ==
  /\ pc = "mutate"
  /\ docs' = updateDocuments(docs, latest)
  /\ pc' = "persist"
  /\ UNCHANGED <<cfg, disk, disk0, tmp, charts, idx, current, latest, handed, result, results,
                 failedAt, log, exit, verVars, argVars, funVars>>

\* Updated returned whatever write(ctx, path, docs) returned
PersistedIgnoringError(err) ==
  LET c == charts[idx]
  IN Return(UpdateResult(c.File, c.Repo, current, latest, StatusUpdated, NoError), "none")

\* the result of the updater once write(ctx, path, docs) returned err
Persisted(err) ==
  LET c == charts[idx]
  IN IF err # NoError
     THEN Return(newErrorResultWithVersions(c.File, c.Repo, current, latest, err), "persist")
     ELSE Return(UpdateResult(c.File, c.Repo, current, latest, StatusUpdated, NoError), "none")

\* the writer left at writeYAMLDocuments whatever cfg.DryRun is
UsesPreviewNever == FALSE

\* the YAMLWriter runUpdate selects: showDiffInternal when cfg.DryRun
UsesPreview == cfg.DryRun

\* updater: write = writeYAMLDocuments
PersistWrite ==
  /\ pc = "persist"
  /\ ~UsesPreview
  /\ \E o \in WriteOutcomes : \E done \in 0..(Len(docs) - 1) :
       LET f == charts[idx].File
           w == writeYAMLDocuments(disk[f], docs, o, done)
       IN /\ (o # "encodeErr" => done = 0)
          /\ disk' = [disk EXCEPT ![f] = w.content]
          /\ log' = Append(log, [Ev("write", idx, w.err) EXCEPT !.failed = w.failed,
                                                                  !.open = w.open])
          /\ Persisted(w.err)
  /\ handed' = docs
  /\ UNCHANGED <<cfg, disk0, tmp, charts, idx, docs, current, latest, exit, verVars, argVars, funVars>>

\* updater: write = showDiffInternal
PersistPreview ==
  /\ pc = "persist"
  /\ UsesPreview
  /\ \E o \in DiffOutcomes : \E removeFails \in BOOLEAN :
       LET d == showDiffInternal(docs, o, removeFails)
       IN /\ tmp' = [created |-> d.created, left |-> d.left, written |-> d.written,
                  removeFailed |-> d.removeFailed]
          /\ log' = Append(log, [Ev("diff", idx, d.err) EXCEPT !.failed = d.failed,
                                                                 !.open = d.open])
          /\ Persisted(d.err)
  /\ handed' = docs
  /\ UNCHANGED <<cfg, disk, disk0, charts, idx, docs, current, latest, exit, verVars, argVars, funVars>>

\* the loop going on whatever the action returned
ContinuesAlways(err) == TRUE

\* ForEachWithError continues with the next chart when the action returned nil
ContinuesAfter(err) == err = NoError

\* runUpdate: logResult on the result just produced, then the next chart or the end
LogStep ==
  /\ pc = "returned"
  /\ log' = Append(log, Ev("logged", idx, logResult(result)))
  /\ IF ~ContinuesAfter(logResult(result))
     THEN /\ pc' = "done"
          /\ exit' = 1
          /\ UNCHANGED <<idx, docs, current, latest, handed, result, failedAt>>
     ELSE IF idx < Len(charts)
     THEN /\ idx' = idx + 1
          /\ pc' = "read"
          /\ exit' = exit
          /\ FreshLocals
     ELSE /\ pc' = "done"
          /\ exit' = IF logResult(result) = NoError THEN 0 ELSE 1
          /\ UNCHANGED <<idx, docs, current, latest, handed, result, failedAt>>
  /\ UNCHANGED <<cfg, disk, disk0, tmp, charts, results, verVars, argVars, funVars>>

UpdaterStep ==
  \/ ReadStep
  \/ ResolveStep
  \/ CompareStep
  \/ MutateStep
  \/ PersistWrite
  \/ PersistPreview

ValidConfigs ==
  {c \in [Dir : {defaultArgoAppsDir}, DryRun : BOOLEAN, CheckOnly : BOOLEAN] :
     validateConfig(c).err = NoError}

VerIdle == va = <<>> /\ vb = <<>> /\ vc = <<>> /\ vres = <<>> /\ vpc = "idle"
ArgIdle == args = <<>> /\ env = <<>> /\ parsed = <<>> /\ apc = "idle"
FunIdle == fin = <<>> /\ fout = <<>> /\ fpc = "idle"

RunLocalsInit ==
  /\ tmp = NoTmp
  /\ docs = <<>>
  /\ current = <<>>
  /\ latest = <<>>
  /\ handed = <<>>
  /\ result = NoResult
  /\ results = <<>>
  /\ failedAt = "none"
  /\ log = <<>>
  /\ exit = 0 - 1

\* a run of the program on a directory of manifests, with a valid Config
Init ==
  /\ cfg \in ValidConfigs
  /\ disk \in [FileNames \cup {NameTxt} -> ManifestSamples]
  /\ disk[NameTxt] = Content(TRUE, <<>>, <<AppDoc(V100, Annotation)>>)
  /\ disk0 = disk
  /\ charts = <<>>
  /\ idx = 0
  /\ pc = "start"
  /\ RunLocalsInit
  /\ VerIdle
  /\ ArgIdle
  /\ FunIdle

Next ==
  \/ Discover
  \/ NoCharts
  \/ RunCheck
  \/ RunUpdate
  \/ UpdaterStep
  \/ LogStep

Spec == Init /\ [][Next]_vars

\* the updater called on one manifest of any generated content (as the tests call it)
InitUpdater ==
  /\ cfg \in {c \in ValidConfigs : ~c.CheckOnly}
  /\ disk \in [{NameA} -> GeneratedManifests]
  /\ disk0 = disk
  /\ charts = <<ChartInfo(NameA, RepoOrgChart)>>
  /\ idx = 1
  /\ pc = "read"
  /\ RunLocalsInit
  /\ VerIdle
  /\ ArgIdle
  /\ FunIdle

NextUpdater == UpdaterStep

SpecUpdater == InitUpdater /\ [][NextUpdater]_vars

(***************************************************************************)
(* The pure functions, applied to inputs drawn from bounded sets.          *)
(***************************************************************************)
\* components of the generated version strings: two numbers that order
\* differently as text and as integers, a non-numeric one, a signed one
VersionParts == {<<"9">>, <<"1", "0">>, <<"x">>, <<"-", "1">>}

RECURSIVE JoinDots(_)
JoinDots(p) == IF Len(p) = 1 THEN p[1] ELSE p[1] \o <<".">> \o JoinDots(Tail(p))

VersionStrings == UNION {{JoinDots(p) : p \in [1..n -> VersionParts]} : n \in 1..MaxParts}

RunIdle ==
  /\ cfg = defaultConfig
  /\ disk = <<>>
  /\ disk0 = <<>>
  /\ charts = <<>>
  /\ idx = 0
  /\ pc = "idle"
  /\ RunLocalsInit

InitVersion ==
  /\ va \in VersionStrings
  /\ vb \in VersionStrings
  /\ vc \in VersionStrings
  /\ vres = <<>>
  /\ vpc = "input"
  /\ RunIdle
  /\ ArgIdle
  /\ FunIdle

\* versionLess on every ordered pair of the three inputs
CompareVersions ==
  /\ vpc = "input"
  /\ vres' = [p \in {"aa", "ab", "ac", "ba", "bb", "bc", "ca", "cb", "cc"} |->
                CASE p = "aa" -> versionLess(va, va) [] p = "ab" -> versionLess(va, vb)
                  [] p = "ac" -> versionLess(va, vc) [] p = "ba" -> versionLess(vb, va)
                  [] p = "bb" -> versionLess(vb, vb) [] p = "bc" -> versionLess(vb, vc)
                  [] p = "ca" -> versionLess(vc, va) [] p = "cb" -> versionLess(vc, vb)
                  [] p = "cc" -> versionLess(vc, vc)]
  /\ vpc' = "compared"
  /\ UNCHANGED <<va, vb, vc, runVars, argVars, funVars>>

NextVersion == CompareVersions

SpecVersion == InitVersion /\ [][NextVersion]_vars

\* versionLess on pairs: the components of SpecVersion and two numbers around
\* math.MaxInt64, and the version strings of TestVersionLess
OrderParts == VersionParts \cup {MaxInt64Digits, MinInt64Digits}

V10 == <<"1", ".", "0">>
V190 == <<"1", ".", "9", ".", "0">>
V1100 == <<"1", ".", "1", "0", ".", "0">>

OrderStrings ==
  UNION {{JoinDots(p) : p \in [1..n -> OrderParts]} : n \in 1..MaxParts}
    \cup {V10, V100, V190, V1100}

InitOrder ==
  /\ va \in OrderStrings
  /\ vb \in OrderStrings
  /\ vc = <<>>
  /\ vres = <<>>
  /\ vpc = "input"
  /\ RunIdle
  /\ ArgIdle
  /\ FunIdle

CompareOrder ==
  /\ vpc = "input"
  /\ vres' = [p \in {"ab", "ba"} |->
                IF p = "ab" THEN versionLess(va, vb) ELSE versionLess(vb, va)]
  /\ vpc' = "ordered"
  /\ UNCHANGED <<va, vb, vc, runVars, argVars, funVars>>

NextOrder == CompareOrder

SpecOrder == InitOrder /\ [][NextOrder]_vars

\* findLatestStable on the version lists of up to MaxVersions elements: stable
\* and pre-release versions, and versions that differ as text and not in order
V20 == <<"2", ".", "0">>

LatestVersions == {V10, V100, V20, V200, V100alpha, V200beta}

VersionLists == UNION {[1..n -> LatestVersions] : n \in 0..MaxVersions}

InitLatest ==
  /\ fin \in VersionLists
  /\ fout = <<>>
  /\ fpc = "input"
  /\ RunIdle
  /\ VerIdle
  /\ ArgIdle

FindLatest ==
  /\ fpc = "input"
  /\ fout' = findLatestStable(fin)
  /\ fpc' = "latest"
  /\ UNCHANGED <<fin, runVars, verVars, argVars>>

NextLatest == FindLatest

SpecLatest == InitLatest /\ [][NextLatest]_vars

\* discovery on a directory listing: MaxFiles manifests whose content varies,
\* a symbolic link named like a manifest to a file outside the directory, a text
\* file holding an annotated Application, and a sub-directory named like a manifest
NameLink == <<"l", ".", "y", "a", "m", "l">>
RepoOther == <<"o", "t", "h", "e", "r", "/", "c", "h", "a", "r", "t">>
AnnotationOther == artifactHubPrefix \o <<" ">> \o RepoOther

DiscoverListing ==
  [i \in 1..MaxFiles |-> [name |-> ManifestNames[i], isDir |-> FALSE, link |-> FALSE]]
    \o << [name |-> NameLink, isDir |-> FALSE, link |-> TRUE],
          [name |-> NameTxt, isDir |-> FALSE, link |-> FALSE],
          [name |-> NameSub, isDir |-> TRUE, link |-> FALSE] >>

DiscoverSamples ==
  { Content(TRUE, <<>>, <<AppDoc(V100, Annotation)>>),
    Content(TRUE, <<>>, <<AppDoc(V100, <<>>)>>),
    Content(TRUE, <<>>, <<ManifestDoc(KindSecret, V100, Annotation)>>),
    Content(TRUE, <<>>, <<ManifestDoc(KindSecret, V100, Annotation),
                          AppDoc(V100, AnnotationOther), AppDoc(V200, Annotation)>>),
    Content(TRUE, <<>>, <<AppDoc(V100, artifactHubPrefix), AppDoc(V200, Annotation)>>),
    Malformed }

InitDiscover ==
  /\ fin \in [o : DiscoverOutcomes,
              files : [FileNames \cup {NameLink, NameTxt} -> DiscoverSamples],
              locked : SUBSET FileNames]
  /\ fin.files[NameTxt] = Content(TRUE, <<>>, <<AppDoc(V100, Annotation)>>)
  /\ fin.files[NameLink] \in {Content(TRUE, <<>>, <<AppDoc(V100, Annotation)>>), Malformed}
  /\ fout = <<>>
  /\ fpc = "input"
  /\ RunIdle
  /\ VerIdle
  /\ ArgIdle

DiscoverCharts ==
  /\ fpc = "input"
  /\ fout' = discover(fin.o, DiscoverListing, fin.files, fin.locked, AbsDir(defaultArgoAppsDir))
  /\ fpc' = "discovered"
  /\ UNCHANGED <<fin, runVars, verVars, argVars>>

NextDiscover == DiscoverCharts

SpecDiscover == InitDiscover /\ [][NextDiscover]_vars

\* getArtifactHubRepo, lookup and set on document trees: the comments a first
\* key may carry, the shapes a document may have, the paths asked for
CommentSamples ==
  { <<>>,
    Annotation,
    artifactHubPrefix \o <<" ", " ", " ">> \o RepoOrgChart \o <<" ", " ">>,
    artifactHubPrefix \o <<"\t">> \o RepoOrgChart,
    artifactHubPrefix \o RepoOrgChart,
    artifactHubPrefix,
    artifactHubPrefix \o <<" ", " ">>,
    <<"#", " ", "s", "o", "m", "e", " ", "o", "t", "h", "e", "r", " ", "c", "o", "m", "m", "e", "n", "t">>,
    <<" ">> \o Annotation }

KeyMetadata == <<"m", "e", "t", "a", "d", "a", "t", "a">>
KeyOther == <<"n", "o", "n", "e", "x", "i", "s", "t", "e", "n", "t">>
CommentKept == <<"#", " ", "k", "e", "e", "p">>

\* metadata: x (commented), spec: {source: {targetRevision: 1.0.0, chart: x}}, kind: Application
SiblingDoc(c) ==
  Document(<<Mapping(<<Commented(Scalar(KeyMetadata), c), Scalar(<<"x">>),
                       Scalar(KeySpec),
                       Mapping(<<Scalar(KeySource),
                                 Mapping(<<Commented(Scalar(KeyTargetRevision), CommentKept),
                                           Scalar(V100),
                                           Scalar(KeyOther), Scalar(<<"x">>)>>),
                                 Commented(Scalar(KeyOther), CommentKept), Scalar(<<"x">>)>>),
                       Scalar(KeyKind), Scalar(KindApplication)>>)>>)

\* kind: Application, spec: {source: [x]}   (source is a sequence)
AppSequenceSource(c) ==
  Document(<<Mapping(<<Commented(Scalar(KeyKind), c), Scalar(KindApplication),
                       Scalar(KeySpec),
                       Mapping(<<Scalar(KeySource), Sequence(<<Scalar(<<"x">>)>>)>>)>>)>>)

\* the comment on the second key, none on the first
SecondKeyCommented(c) ==
  Document(<<Mapping(<<Scalar(KeyKind), Scalar(KindApplication),
                       Commented(Scalar(KeySpec), c), Scalar(<<"x">>)>>)>>)

NodeSamples ==
  UNION {{ AppDoc(V100, c), AppNoTarget(c), AppScalarSpec(c), SiblingDoc(c),
           AppSequenceSource(c), SecondKeyCommented(c),
           docRoot(AppDoc(V100, c)),
           Document(<<Commented(Scalar(<<"x">>), c)>>),
           Commented(Document(<<Mapping(<<>>)>>), c),
           Commented(EmptyDoc, c) } : c \in CommentSamples}

PathSamples ==
  { <<>>, <<KeyKind>>, <<KeySpec>>, <<KeySpec, KeySource>>, TargetRevisionPath,
    <<KeyOther>>, <<KeySpec, KeyOther>>, <<KeySpec, KeySource, KeyOther>> }

InitNode ==
  /\ fin \in [node : NodeSamples, path : PathSamples, value : {V200}]
  /\ fout = <<>>
  /\ fpc = "input"
  /\ RunIdle
  /\ VerIdle
  /\ ArgIdle

RepoOf ==
  /\ fpc = "input"
  /\ fout' = getArtifactHubRepo(fin.node)
  /\ fpc' = "repo"
  /\ UNCHANGED <<fin, runVars, verVars, argVars>>

LookupOf ==
  /\ fpc = "input"
  /\ fout' = lookup(docRoot(fin.node), fin.path)
  /\ fpc' = "lookup"
  /\ UNCHANGED <<fin, runVars, verVars, argVars>>

\* set mutates the tree under the root: fout is the root afterwards
SetOf ==
  /\ fpc = "input"
  /\ fout' = set(docRoot(fin.node), fin.value, fin.path)
  /\ fpc' = "set"
  /\ UNCHANGED <<fin, runVars, verVars, argVars>>

NextNode == RepoOf \/ LookupOf \/ SetOf

SpecNode == InitNode /\ [][NextNode]_vars

\* the arguments of the command line the model draws from
ArgTokens ==
  {FlagDryRun, FlagN, FlagCheck, FlagC, FlagDir, FlagD, FlagHelp,
   <<"x">>, <<"-", "z">>, TestFlagPrefix \o <<"v">>}

ArgLists == UNION {[1..n -> ArgTokens] : n \in 0..MaxArgs}

InitConfig ==
  /\ args \in ArgLists
  /\ env \in {<<>>, <<"e">>}
  /\ parsed = <<>>
  /\ apc = "input"
  /\ RunIdle
  /\ VerIdle
  /\ FunIdle

ParseStep ==
  /\ apc = "input"
  /\ parsed' = ParseConfig(args, env)
  /\ apc' = "parsed"
  /\ UNCHANGED <<args, env, runVars, verVars, funVars>>

NextConfig == ParseStep

SpecConfig == InitConfig /\ [][NextConfig]_vars

(***************************************************************************)
(* Properties.                                                             *)
(***************************************************************************)
\* positions in log of the invocations `op` made for chart i
Events(op, i) == {k \in 1..Len(log) : log[k].op = op /\ log[k].i = i}
PersistEvents(i) == Events("write", i) \cup Events("diff", i)

\* the documents of chart i's manifest as the run found them, and the
\* targetRevision of the first Application document among them
DocsOnDisk(i) == disk0[charts[i].File].docs
CurrentOnDisk(i) == getTargetRevision(DocsOnDisk(i)[firstApplication(DocsOnDisk(i))])

\* C10: versionLess is irreflexive and transitive (hence asymmetric) on every
\* triple of version strings, whatever their component counts and whether or
\* not their components are numeric.
C10_StrictOrder ==
  vpc = "compared" =>
    /\ ~vres["aa"] /\ ~vres["bb"] /\ ~vres["cc"]
    /\ (vres["ab"] /\ vres["bc"] => vres["ac"])
    /\ (vres["ab"] => ~vres["ba"])
    /\ (~vres["ab"] /\ ~vres["ba"] /\ ~vres["bc"] /\ ~vres["cb"] =>
          ~vres["ac"] /\ ~vres["ca"])

\* C10 witness: a < b < c with a and b of different component counts and a
\* non-numeric component in b
C10_Witness ==
  /\ vpc = "compared"
  /\ vres["ab"] /\ vres["bc"] /\ vres["ac"]
  /\ Len(Split(va)) # Len(Split(vb))
  /\ \E i \in 1..Len(Split(vb)) : Split(vb)[i] = <<"x">>

\* the positions of args that parseArgs reads as flags: every position but
\* those holding the value that follows --dir / -d
RECURSIVE FlagPositions(_, _)
FlagPositions(as, i) ==
  IF i > Len(as) THEN {}
  ELSE IF as[i] \in {FlagDir, FlagD} THEN {i} \cup FlagPositions(as, i + 2)
  ELSE {i} \cup FlagPositions(as, i + 1)

HasToken(as, tokens) == \E i \in 1..Len(as) : as[i] \in tokens
HasFlag(as, tokens) == \E i \in FlagPositions(as, 1) : as[i] \in tokens

\* C9 as stated: every argument list that contains a dry-run flag and a check
\* flag, in any order, and no help flag, is rejected.
C9_AnyBothFlagsRejected ==
  apc = "parsed" =>
    (HasToken(args, {FlagDryRun, FlagN}) /\ HasToken(args, {FlagCheck, FlagC})
       /\ ~HasToken(args, {FlagHelp, FlagH})
     => parsed.err # NoError)

\* C9 amended: ParseConfig never returns without error a Config with DryRun and
\* CheckOnly both true, and it rejects every argument list with no help flag in
\* which a dry-run flag and a check flag both stand where a flag is read (not
\* as the directory that follows --dir / -d).
C9_BothFlagsRejected ==
  apc = "parsed" =>
    /\ (parsed.err = NoError => ~(parsed.cfg.DryRun /\ parsed.cfg.CheckOnly))
    /\ (HasFlag(args, {FlagDryRun, FlagN}) /\ HasFlag(args, {FlagCheck, FlagC})
          /\ ~HasToken(args, {FlagHelp, FlagH})
        => parsed.err # NoError)

\* C9 witness: both flags given, the check flag first, rejected by validateConfig
C9_Witness ==
  /\ apc = "parsed"
  /\ args = <<FlagC, FlagDryRun>>
  /\ parsed.err = "--dry-run and --check cannot be used together"

\* C1: when Read and Resolve succeeded with current c and latest l and
\* versionLess(c, l) is false, the updater returns UpToDate with Current = c,
\* Latest = l and no error, no persist collaborator was invoked and the file
\* is as it was.
C1_UpToDateNoPersist ==
  pc = "returned" =>
    \A k \in Events("fetch", idx) :
      LET c == CurrentOnDisk(idx)
          l == ArtifactHubFetcher(log[k].resp).latest
      IN log[k].err = NoError /\ ~versionLess(c, l) =>
           /\ result = UpdateResult(charts[idx].File, charts[idx].Repo, c, l,
                                    StatusUpToDate, NoError)
           /\ PersistEvents(idx) = {}
           /\ disk = disk0
           /\ tmp = NoTmp

\* C1 witness: UpToDate returned for a current version newer than the latest
C1_Witness ==
  /\ pc = "returned"
  /\ result.Status = StatusUpToDate
  /\ versionLess(result.Latest, result.Current)
  /\ disk = disk0

\* C2: when the first Application document has targetRevision c, the registry
\* answered a list whose maximal stable element is l, versionLess(c, l) and the
\* persist collaborator returned no error, the result is Updated c -> l
\* without error and the first Application document handed to persist has
\* targetRevision l.
C2_EndToEndUpdate ==
  pc = "returned" =>
    \A k \in Events("fetch", idx) : \A j \in 1..Len(log[k].resp.versions) :
      LET c == CurrentOnDisk(idx)
          vs == log[k].resp.versions
          l == vs[j]
          maximal == isStable(l) /\
                     \A e \in 1..Len(vs) : isStable(vs[e]) => ~versionLess(l, vs[e])
      IN log[k].resp.kind = "ok" /\ c # <<>> /\ maximal /\ versionLess(c, l)
           /\ (\E w \in PersistEvents(idx) : log[w].err = NoError)
         => /\ result = UpdateResult(charts[idx].File, charts[idx].Repo, c, l,
                                     StatusUpdated, NoError)
            /\ getTargetRevision(handed[firstApplication(handed)]) = l

\* C2 witness: 1.0.0 with the registry answering [1.0.0, 2.0.0, 1.5.0] ends Updated 1.0.0 -> 2.0.0
C2_Witness ==
  /\ pc = "returned"
  /\ \E k \in Events("fetch", idx) : log[k].resp.versions = <<V100, V200, V150>>
  /\ result.Status = StatusUpdated
  /\ result.Current = V100
  /\ result.Latest = V200
  /\ getTargetRevision(handed[firstApplication(handed)]) = V200

\* C3: after Mutate every Application document has targetRevision = latest,
\* every other document is unchanged, and the documents are as many as before.
C3_MutateEveryApplication ==
  pc = "persist" =>
    /\ Len(docs) = Len(DocsOnDisk(idx))
    /\ \A i \in 1..Len(DocsOnDisk(idx)) :
         IF kind(DocsOnDisk(idx)[i]) = KindApplication
         THEN getTargetRevision(docs[i]) = latest
         ELSE docs[i] = DocsOnDisk(idx)[i]

\* C4: once Read was attempted on a file that cannot be read or parsed, has
\* no Application document, or whose first Application document has no or an
\* empty targetRevision, the updater has returned an Error result and neither
\* the resolver nor a persist collaborator was invoked.
C4_ReadFailsWithoutVersion ==
  \A k \in Events("read", idx) :
    (log[k].err # NoError \/ firstApplication(DocsOnDisk(idx)) = 0
       \/ CurrentOnDisk(idx) = <<>>)
    => /\ pc = "returned"
       /\ result.Status = StatusError
       /\ result.Error # NoError
       /\ Events("fetch", idx) = {}
       /\ PersistEvents(idx) = {}

\* the step at which chart n's processing failed, read off the collaborators' answers
ReadFailed(n) ==
  \E k \in Events("read", n) : log[k].err # NoError \/ firstApplication(DocsOnDisk(n)) = 0
ResolveFailed(n) == \E k \in Events("fetch", n) : log[k].err # NoError
PersistFailed(n) == \E k \in PersistEvents(n) : log[k].err # NoError

C6_SequentialFailFast ==
  /\ \A j, k \in 1..Len(log) : j < k => log[j].i <= log[k].i
  /\ \A k \in 1..Len(log) :
       log[k].op # "discover" /\ log[k].op # "list" /\ log[k].i > 1 =>
         \E j \in 1..(k - 1) :
           log[j].op = "logged" /\ log[j].i = log[k].i - 1 /\ log[j].err = NoError
  /\ \A n \in 1..Len(results) :
       results[n].Status = StatusError =>
         /\ n = Len(results)
         /\ \A k \in 1..Len(log) : log[k].i <= n
         /\ \A k \in Events("logged", n) : k = Len(log) /\ pc = "done" /\ exit = 1

\* C6 witness: two charts discovered, the first ended in Error, the run is
\* over and the second was never read
C6_Witness ==
  /\ pc = "done"
  /\ Len(charts) = 2
  /\ Len(results) = 1
  /\ results[1].Status = StatusError
  /\ Events("read", 2) = {}

\* C7: with DryRun set the manifests on disk are never modified: the write
\* policy is never invoked, and what is serialized goes to the temporary file.
C7_DryRunLeavesManifests ==
  cfg.DryRun =>
    /\ disk = disk0
    /\ \A i \in 1..Len(charts) : Events("write", i) = {}
    /\ (tmp.written # EmptyFile => tmp.created)
    /\ (pc = "returned" /\ Events("diff", idx) # {} /\ tmp.written # EmptyFile =>
          tmp.written = Content(TRUE, <<>>, encodeStream(handed).docs))

\* C7 witness: a dry run previewed an update of a manifest
C7_Witness ==
  /\ cfg.DryRun
  /\ pc = "returned"
  /\ result.Status = StatusUpdated
  /\ tmp.created
  /\ tmp.written.docs = handed
  /\ handed # DocsOnDisk(idx)

Discovered == \E k \in 1..Len(log) : log[k].op = "discover" /\ log[k].err = NoError

\* C8: the run ends with exit code 0 iff discovery succeeded, found at least
\* one chart, and check-only was set or every chart got a non-Error result;
\* with no chart found the run fails and the resolver was never called.
C8_ExitCode ==
  pc = "done" =>
    /\ exit \in {0, 1}
    /\ (exit = 0 <=>
          /\ Discovered
          /\ Len(charts) >= 1
          /\ \/ cfg.CheckOnly
             \/ /\ Len(results) = Len(charts)
                /\ \A n \in 1..Len(results) : results[n].Status # StatusError)
    /\ (Len(charts) = 0 => exit = 1 /\ \A k \in 1..Len(log) : log[k].op # "fetch")

\* C8 witness: discovery succeeded and found no chart: the run failed
C8_Witness ==
  /\ pc = "done"
  /\ Discovered
  /\ Len(charts) = 0
  /\ exit = 1

\* the reference ordering: a component read as the integer it writes (an
\* optional sign and decimal digits, of any size), anything else and a missing
\* trailing component as 0
RefInt(s) ==
  LET signed == s # <<>> /\ Head(s) \in {"+", "-"}
      body == IF signed THEN Tail(s) ELSE s
      numeric == body # <<>> /\ \A i \in 1..Len(body) : body[i] \in Digits
  IN IF ~numeric \/ StripZeros(body) = <<>> THEN IntZero
     ELSE [neg |-> signed /\ Head(s) = "-", mag |-> StripZeros(body)]

RefComponent(parts, i) == IF i <= Len(parts) THEN RefInt(parts[i]) ELSE IntZero

\* index by index up to the longer length: decided at the first differing index
RECURSIVE RefLessFrom(_, _, _)
RefLessFrom(as, bs, i) ==
  IF i > Len(as) /\ i > Len(bs) THEN FALSE
  ELSE IF RefComponent(as, i) # RefComponent(bs, i)
       THEN IntLess(RefComponent(as, i), RefComponent(bs, i))
       ELSE RefLessFrom(as, bs, i + 1)

RefLess(a, b) == RefLessFrom(Split(a), Split(b), 1)

\* C11: versionLess(a, b) is the reference ordering of a and b: true iff at the
\* first index where the components differ as integers a's is the smaller,
\* false when none differs.
C11_ReferenceOrdering ==
  vpc = "ordered" =>
    /\ vres["ab"] = RefLess(va, vb)
    /\ vres["ba"] = RefLess(vb, va)

\* the positions of the stable elements of a list no stable element exceeds
MaximalStable(vs) ==
  {i \in 1..Len(vs) :
     /\ isStable(vs[i])
     /\ \A e \in 1..Len(vs) : isStable(vs[e]) => ~versionLess(vs[i], vs[e])}

\* C12: findLatestStable answers found = false iff the list holds no stable
\* version; otherwise it answers the stable, maximal element that occurs first.
C12_LatestStable ==
  fpc = "latest" =>
    /\ (~fout.found <=> \A i \in 1..Len(fin) : ~isStable(fin[i]))
    /\ (fout.found =>
          /\ MaximalStable(fin) # {}
          /\ \E i \in MaximalStable(fin) :
               /\ \A j \in MaximalStable(fin) : i <= j
               /\ fout.version = fin[i])

\* C12 witness: two maximal elements that differ as text, the later one is not returned
C12_Witness ==
  /\ fpc = "latest"
  /\ fout.found
  /\ \E i, j \in MaximalStable(fin) : i < j /\ fin[i] # fin[j] /\ fout.version = fin[i]
  /\ \E k \in 1..Len(fin) : ~isStable(fin[k])

\* the registry answers the resolver must fail on
FailedLookup(resp) ==
  \/ resp.kind \in {"transport", "status", "decode"}
  \/ resp.versions = <<>>
  \/ \A i \in 1..Len(resp.versions) : ~isStable(resp.versions[i])

\* C13: on a transport failure, a non-success status, an undecodable payload,
\* an empty version list or a list of pre-release versions only, the resolver
\* returns an error and the empty version ("no stable versions found" in the
\* last case) and the manifest's result is Error; a version it returns without
\* error is never a pre-release.
C13_ResolverErrors ==
  \A k \in 1..Len(log) :
    log[k].op = "fetch" =>
      LET resp == log[k].resp
          n == log[k].i
      IN /\ (FailedLookup(resp) =>
               /\ log[k].err # NoError
               /\ Len(results) >= n
               /\ results[n].Status = StatusError
               /\ results[n].Error = log[k].err
               /\ results[n].Latest = <<>>)
         /\ (resp.kind = "ok" /\ resp.versions # <<>> /\ FailedLookup(resp) =>
               log[k].err = "no stable versions found")
         /\ (log[k].err = NoError /\ k = Len(log) =>
               /\ isStable(latest)
               /\ \E i \in 1..Len(resp.versions) : resp.versions[i] = latest)

\* C13 witness: the registry answered pre-release versions only and the manifest ended in Error
C13_Witness ==
  /\ pc = "returned"
  /\ \E k \in Events("fetch", idx) :
       /\ log[k].resp.versions = <<V100alpha, V200beta>>
       /\ log[k].err = "no stable versions found"
  /\ result.Status = StatusError
  /\ result.Latest = <<>>

\* C14: an entry whose resolved path lies outside the scanned directory is
\* never handed to the parser and never appears in the discovery output, even
\* when it is named like a manifest.
C14_PathContainment ==
  fpc = "discovered" =>
    \A i \in 1..Len(DiscoverListing) :
      DiscoverListing[i].link =>
        /\ \A k \in 1..Len(fout.read) : fout.read[k] # DiscoverListing[i].name
        /\ \A k \in 1..Len(fout.charts) : fout.charts[k].File # DiscoverListing[i].name

\* the Application documents of a file that carry a non-empty package identifier
Identified(content) ==
  {i \in 1..Len(content.docs) :
     kind(content.docs[i]) = KindApplication /\ getArtifactHubRepo(content.docs[i]) # <<>>}

\* an entry is eligible: a non-directory named *.yaml or *.yml that can be read,
\* parses, and holds an Application document with a package identifier
Eligible(e) ==
  /\ ~e.isDir
  /\ HasSuffix(e.name, SuffixYaml) \/ HasSuffix(e.name, SuffixYml)
  /\ e.name \notin fin.locked
  /\ fin.files[e.name].ok
  /\ Identified(fin.files[e.name]) # {}

FirstIdentifier(content) ==
  getArtifactHubRepo(content.docs[CHOOSE i \in Identified(content) :
                                    \A j \in Identified(content) : i <= j])

\* C15: discovery emits exactly one ChartInfo for each eligible entry, in
\* listing order, with File the entry's path relative to the directory and Repo
\* the identifier of its first annotated Application document, and none for any
\* other entry; no Repo is empty.
C15_Eligibility ==
  fpc = "discovered" /\ fin.o = "ok" =>
    LET sel == SelectSeq(DiscoverListing, Eligible)
    IN /\ Len(fout.charts) = Len(sel)
       /\ \A k \in 1..Len(sel) :
            /\ fout.charts[k].File = sel[k].name
            /\ fout.charts[k].Repo = FirstIdentifier(fin.files[sel[k].name])
            /\ fout.charts[k].Repo # <<>>

\* C15 witness: a file whose first document is an annotated Secret and whose
\* first Application names another repository than its second, between an
\* un-annotated file and the rest
C15_Witness ==
  /\ fpc = "discovered"
  /\ fin.o = "ok"
  /\ fin.files[NameA] = Content(TRUE, <<>>, <<AppDoc(V100, <<>>)>>)
  /\ Len(fin.files[NameB].docs) = 3
  /\ NameB \notin fin.locked
  /\ Len(fout.charts) >= 2
  /\ fout.charts[1] = ChartInfo(NameB, RepoOther)

\* C16: a file that cannot be read or parsed is left out and nothing more:
\* discovery returns no error and a ChartInfo for every eligible file.
C16_MalformedSkipped ==
  fpc = "discovered" /\ fin.o = "ok" =>
    /\ fout.err = NoError
    /\ \A i \in 1..Len(DiscoverListing) :
         LET e == DiscoverListing[i]
         IN /\ Eligible(e) => \E k \in 1..Len(fout.charts) : fout.charts[k].File = e.name
            /\ (~e.isDir /\ (e.name \in fin.locked \/ ~fin.files[e.name].ok) =>
                  \A k \in 1..Len(fout.charts) : fout.charts[k].File # e.name)

\* C16 witness: the first file of the listing is malformed and the eligible
\* second one is emitted
C16_Witness ==
  /\ fpc = "discovered"
  /\ fin.o = "ok"
  /\ fin.files[NameA] = Malformed
  /\ Eligible(DiscoverListing[2])
  /\ fout.err = NoError
  /\ \E k \in 1..Len(fout.charts) : fout.charts[k].File = NameB

\* C17: when the directory does not exist, is not a directory or cannot be
\* listed, discovery returns an error ("not a directory" in the second case),
\* no ChartInfo, and no file was parsed.
C17_DiscoverFails ==
  fpc = "discovered" /\ fin.o \in {"statErr", "notDir", "readDirErr"} =>
    /\ fout.err # NoError
    /\ fout.charts = <<>>
    /\ fout.read = <<>>
    /\ (fin.o = "notDir" => fout.err = "path is not a directory")

\* C17 witness: the path is a file; eligible manifests would have been there
C17_Witness ==
  /\ fpc = "discovered"
  /\ fin.o = "notDir"
  /\ fout.err = "path is not a directory"
  /\ fout.charts = <<>>
  /\ \E i \in 1..Len(DiscoverListing) : Eligible(DiscoverListing[i])

\* t is s without its leading and trailing whitespace
IsTrimOf(t, s) ==
  \E a \in 0..Len(s) : \E b \in a..Len(s) :
    /\ t = SubSeq(s, a + 1, b)
    /\ \A i \in 1..a : s[i] \in Space
    /\ \A i \in (b + 1)..Len(s) : s[i] \in Space
    /\ (t # <<>> => t[1] \notin Space /\ t[Len(t)] \notin Space)

\* the leading comment of the first key of the document's root mapping, <<>> if there is none
FirstKeyComment(n) ==
  LET root == IF n.Kind = DocumentNode /\ n.Content # <<>> THEN n.Content[1] ELSE n
  IN IF root.Kind = MappingNode /\ root.Content # <<>> THEN root.Content[1].HeadComment
     ELSE <<>>

AfterMarker(c) == SubSeq(c, Len(artifactHubPrefix) + 1, Len(c))

Child(n, k) ==
  LET at == {i \in 1..Len(n.Content) : i % 2 = 1 /\ i < Len(n.Content) /\ n.Content[i].Value = k}
  IN IF n.Kind # MappingNode \/ at = {} THEN Nil
     ELSE n.Content[(CHOOSE i \in at : \A j \in at : i <= j) + 1]

\* the node a path leads to through nested mappings, Nil when a segment cannot be followed
RECURSIVE Follow(_, _)
Follow(n, path) ==
  IF path = <<>> \/ n = Nil THEN n ELSE Follow(Child(n, Head(path)), Tail(path))

\* C19: lookup returns the value of the scalar the path leads to, and the
\* empty string when a segment is absent, an intermediate node is not a
\* mapping, the root is a scalar, an empty mapping or missing, or the path ends
\* on a mapping.
C19_LookupTotal ==
  fpc = "lookup" =>
    LET root == IF fin.node.Kind = DocumentNode /\ fin.node.Content # <<>>
                THEN fin.node.Content[1] ELSE fin.node
        end == Follow(root, fin.path)
    IN /\ (end = Nil => fout = <<>>)
       /\ (end # Nil /\ end.Kind = ScalarNode => fout = end.Value)
       /\ (end # Nil /\ end.Kind # ScalarNode => fout = <<>>)
       /\ (fin.path # <<>> /\ (root.Kind # MappingNode \/ root.Content = <<>>) => fout = <<>>)

\* C19 witness: spec is a scalar, so spec.source.targetRevision cannot be followed
C19_Witness ==
  /\ fpc = "lookup"
  /\ fin.path = TargetRevisionPath
  /\ Follow(docRoot(fin.node), <<KeySpec>>).Kind = ScalarNode
  /\ fout = <<>>

\* new is old with nothing disturbed on the way down path: the pairs old had
\* stand where they stood, with their keys, comments and values, except the
\* value the path goes through; what is new comes after them
RECURSIVE Preserved(_, _, _)
Preserved(old, new, path) ==
  IF path = <<>> THEN new = [old EXCEPT !.Value = new.Value]
  ELSE /\ new.Kind = old.Kind
       /\ new.Value = old.Value
       /\ new.HeadComment = old.HeadComment
       /\ Len(new.Content) >= Len(old.Content)
       /\ \A i \in 1..Len(old.Content) :
            IF old.Kind = MappingNode /\ Child(old, Head(path)) # Nil
               /\ i % 2 = 0 /\ old.Content[i - 1].Value = Head(path)
               /\ \A j \in 1..(i - 2) : j % 2 = 1 => old.Content[j].Value # Head(path)
            THEN Preserved(old.Content[i], new.Content[i], Tail(path))
            ELSE new.Content[i] = old.Content[i]

\* the paths that lead to a node of the tree under root
ExistingPaths(root) == {q \in PathSamples : Follow(root, q) # Nil}

\* C20: after set on a mapping root, lookup of the path gives the value set,
\* every pair that existed keeps its place, value and comment, and lookup of
\* every other existing path that does not lead through the target is unchanged.
C20_SetLookupFrame ==
  fpc = "set" =>
    LET root == IF fin.node.Kind = DocumentNode /\ fin.node.Content # <<>>
                THEN fin.node.Content[1] ELSE fin.node
    IN root.Kind = MappingNode =>
         /\ lookup(fout, fin.path) = fin.value
         /\ Preserved(root, fout, fin.path)
         /\ \A q \in ExistingPaths(root) :
              ~HasPrefix(q, fin.path) /\ ~HasPrefix(fin.path, q) =>
                lookup(fout, q) = lookup(root, q)

(***************************************************************************)
(* Serialization: documents written by writeYAMLDocuments and read back by *)
(* readYAMLDocuments.                                                      *)
(***************************************************************************)
\* a node as the decoder builds it: a document has one root, a mapping has
\* key/value pairs and no value of its own, a scalar has no children
RECURSIVE wellFormed(_)
wellFormed(n) ==
  /\ n.Kind \in {DocumentNode, MappingNode, SequenceNode, ScalarNode}
  /\ (n.Kind = DocumentNode => Len(n.Content) = 1 /\ n.Content[1].Kind # DocumentNode)
  /\ (n.Kind = MappingNode => Len(n.Content) % mappingNodeStep = 0 /\ n.Value = <<>>)
  /\ (n.Kind = ScalarNode => n.Content = <<>>)
  /\ (n.Kind = SequenceNode => n.Value = <<>>)
  /\ \A i \in 1..Len(n.Content) : wellFormed(n.Content[i])

RoundTripDocs ==
  { d \in { AppDoc(V100, Annotation), AppDoc(V200, <<>>), SecretDoc, AppNoTarget(Annotation),
            AppScalarSpec(CommentKept), SiblingDoc(Annotation), AppSequenceSource(<<>>),
            SecondKeyCommented(Annotation), Document(<<Scalar(<<"x">>)>>),
            EmptyDoc, docRoot(AppDoc(V100, <<>>)) } :
      d.Kind = DocumentNode /\ wellFormed(d) }

InitRoundTrip ==
  /\ fin \in UNION {{[docs |-> ds] : ds \in [1..n -> RoundTripDocs]} : n \in 0..MaxDocs}
  /\ fout = <<>>
  /\ fpc = "input"
  /\ RunIdle
  /\ VerIdle
  /\ ArgIdle

\* writeYAMLDocuments(path, docs) without a failure, then readYAMLDocuments(path)
WriteThenRead ==
  /\ fpc = "input"
  /\ LET w == writeYAMLDocuments(EmptyFile, fin.docs, "ok", 0)
         r == readYAMLDocuments(w.content, FALSE)
     IN fout' = [written |-> w.content, werr |-> w.err, docs |-> r.docs, err |-> r.err]
  /\ fpc' = "reparsed"
  /\ UNCHANGED <<fin, runVars, verVars, argVars>>

NextRoundTrip == WriteThenRead

SpecRoundTrip == InitRoundTrip /\ [][NextRoundTrip]_vars

InUpdater == pc \in {"read", "resolve", "compare", "mutate", "persist"}

\* the updater was entered for chart i and read has returned
ReadDone(i) == i < idx \/ (i = idx /\ pc # "read")
\* the updater has returned for chart i
Ended(i) == i < idx \/ (i = idx /\ pc \in {"returned", "done"})

C23_PersistFailureIsError ==
  pc = "returned" =>
    \A k \in PersistEvents(idx) :
      log[k].failed # "none" => result.Status = StatusError /\ result.Error # NoError

\* the file handles left open by the collaborators invoked so far
RECURSIVE OpenHandles(_)
OpenHandles(k) == IF k = 0 THEN 0 ELSE log[k].open + OpenHandles(k - 1)

\* C24: after any sequence of manifest operations no file handle that
\* readYAMLDocuments, writeYAMLDocuments or showDiffInternal opened is still
\* open, on error paths as well, and the preview's temporary file is removed
\* whenever os.Remove itself does not fail.
C24_ScopedHandles ==
  /\ OpenHandles(Len(log)) = 0
  /\ (tmp.created /\ ~tmp.removeFailed => ~tmp.left)

\* C25: with CheckOnly set the run only discovers: it lists the charts and
\* ends with exit code 0 when there is one, and never reads a manifest for
\* update, asks the resolver, mutates documents or persists; and in any run a
\* manifest file differs from what it was only if writeYAMLDocuments was
\* invoked on it.
C25_CheckOnly ==
  /\ cfg.CheckOnly =>
       /\ \A k \in 1..Len(log) : log[k].op \in {"discover", "list"}
       /\ disk = disk0
       /\ tmp = NoTmp
       /\ docs = <<>> /\ handed = <<>> /\ results = <<>>
       /\ (pc = "done" /\ Len(charts) > 0 =>
             exit = 0 /\ \E k \in 1..Len(log) : log[k].op = "list")
  /\ \A f \in DOMAIN disk :
       disk[f] # disk0[f] =>
         \E i \in 1..Len(charts) : charts[i].File = f /\ Events("write", i) # {}

\* C25 witness: a check-only run ended successfully over two discovered
\* charts, the first of them outdated
C25_Witness ==
  /\ cfg.CheckOnly
  /\ pc = "done"
  /\ exit = 0
  /\ Len(charts) = 2
  /\ CurrentOnDisk(1) = V100
  /\ disk = disk0

\* one or more trailing segments of path are missing under root: a prefix of
\* the path leads to a mapping that has no key for the next segment
TrailingMissing(root, path) ==
  \E m \in 0..(Len(path) - 1) :
    LET at == Follow(root, SubSeq(path, 1, m))
    IN at # Nil /\ at.Kind = MappingNode /\ Child(at, path[m + 1]) = Nil

\* C26: when set creates the missing trailing segments of a path, every
\* intermediate node on the path is a mapping, the node at the final segment is
\* a scalar holding the value, the tree is well-formed and lookup of the path
\* gives the value again once the tree was written and read back.
C26_SetCreatesScalar ==
  fpc = "set" =>
    LET root == docRoot(fin.node)
    IN root.Kind = MappingNode /\ TrailingMissing(root, fin.path) =>
         /\ \A m \in 1..(Len(fin.path) - 1) :
              Follow(fout, SubSeq(fin.path, 1, m)).Kind = MappingNode
         /\ Follow(fout, fin.path).Kind = ScalarNode
         /\ Follow(fout, fin.path).Value = fin.value
         /\ wellFormed(fout)
         /\ lookup(encodeNode(fout), fin.path) = fin.value

(***************************************************************************)
(* Two runs of the program over the same directory: a second run starts    *)
(* once a first run in write mode has ended with exit code 0.  fin keeps   *)
(* the charts, the log and the results of the first run.                   *)
(***************************************************************************)
Rerun ==
  /\ pc = "done"
  /\ exit = 0
  /\ ~cfg.CheckOnly
  /\ ~cfg.DryRun
  /\ fpc = "idle"
  /\ fin' = [charts |-> charts, log |-> log, results |-> results]
  /\ fpc' = "second"
  /\ disk0' = disk
  /\ charts' = <<>>
  /\ idx' = 0
  /\ pc' = "start"
  /\ tmp' = NoTmp
  /\ FreshLocals
  /\ results' = <<>>
  /\ log' = <<>>
  /\ exit' = 0 - 1
  /\ UNCHANGED <<cfg, disk, fout, verVars, argVars>>

InitTwice == Init

NextTwice == Next \/ Rerun

SpecTwice == InitTwice /\ [][NextTwice]_vars

\* the registry answered the second run's request for chart i as it had
\* answered the first run's
SameAnswer(i) ==
  \A k \in Events("fetch", i) : \A k0 \in 1..Len(fin.log) :
    fin.log[k0].op = "fetch" /\ fin.log[k0].i = i => log[k].resp = fin.log[k0].resp

\* C27: a second write-mode run after a run that ended Updated or UpToDate on
\* every manifest discovers the same charts and, with the same answers of the
\* registry and the manifests readable, ends UpToDate on every manifest
\* without invoking writeYAMLDocuments.
C27_Idempotent ==
  fpc = "second" =>
    /\ (Discovered => charts = fin.charts)
    /\ \A i \in 1..Len(charts) :
         /\ Ended(i)
         /\ (\A k \in Events("read", i) : log[k].err = NoError)
         /\ SameAnswer(i)
         => /\ results[i].Status = StatusUpToDate
            /\ Events("write", i) = {}

\* C28: what a dry run serialized to its temporary file is what
\* writeYAMLDocuments stores in the manifest file for the same documents, the
\* annotation comment and the "---" after it included.
C28_PreviewFidelity ==
  pc = "returned" /\ cfg.DryRun =>
    \A k \in Events("diff", idx) :
      log[k].failed \notin {"create", "encode"} =>
        tmp.written = writeYAMLDocuments(disk[charts[idx].File], handed, "ok", 0).content

\* C29: when writeYAMLDocuments returned an error (the file could not be
\* created, the comment or a document could not be written), the manifest
\* file holds what it held before the update was attempted.
C29_FailedWriteKeepsManifest ==
  pc = "returned" =>
    \A k \in Events("write", idx) :
      log[k].err # NoError =>
        result.Status = StatusError /\ disk[charts[idx].File] = disk0[charts[idx].File]

\* the documents of the manifest of chart i as a reader finds them now and as
\* the run found them
StoredDocs(i) == decodeStream(disk[charts[i].File]).docs
FoundDocs(i) == decodeStream(disk0[charts[i].File]).docs

\* C30 as stated: after an update no Application document of the manifest has
\* a targetRevision versionLess than the one it had before.
C30_NoDowngradeAnyDocument ==
  pc = "returned" /\ ~cfg.DryRun /\ result.Status = StatusUpdated =>
    /\ Len(StoredDocs(idx)) = Len(FoundDocs(idx))
    /\ \A d \in 1..Len(FoundDocs(idx)) :
         kind(FoundDocs(idx)[d]) = KindApplication =>
           ~versionLess(getTargetRevision(StoredDocs(idx)[d]),
                        getTargetRevision(FoundDocs(idx)[d]))

\* C30: after an update the first Application document of the manifest never
\* has a targetRevision versionLess than the one it had before; a later
\* Application document may, and then it holds the latest version, which the
\* first document's version was versionLess than.
C30_NoDowngradeFirstDocument ==
  pc = "returned" /\ ~cfg.DryRun /\ result.Status = StatusUpdated =>
    /\ Len(StoredDocs(idx)) = Len(FoundDocs(idx))
    /\ \A d \in 1..Len(FoundDocs(idx)) :
         kind(FoundDocs(idx)[d]) = KindApplication =>
           \/ ~versionLess(getTargetRevision(StoredDocs(idx)[d]),
                           getTargetRevision(FoundDocs(idx)[d]))
           \/ /\ d # firstApplication(FoundDocs(idx))
              /\ getTargetRevision(StoredDocs(idx)[d]) = result.Latest
              /\ versionLess(getTargetRevision(FoundDocs(idx)[firstApplication(FoundDocs(idx))]),
                             result.Latest)

\* C30 witness: two Application documents pinned to 1.0.0 and 3.0.0, latest
\* 2.0.0: the first went up to 2.0.0, the second down to it
C30_Witness ==
  /\ pc = "returned"
  /\ ~cfg.DryRun
  /\ result.Status = StatusUpdated
  /\ Len(FoundDocs(idx)) = 2
  /\ getTargetRevision(FoundDocs(idx)[1]) = V100
  /\ getTargetRevision(FoundDocs(idx)[2]) = V300
  /\ getTargetRevision(StoredDocs(idx)[1]) = V200
  /\ getTargetRevision(StoredDocs(idx)[2]) = V200

====
